---- MODULE Spec2Model ----
(***************************************************************************)
(* Model of js/starfield.js: the DOMContentLoaded handler that builds the  *)
(* star store, the per-frame draw() pass, the requestAnimationFrame loop   *)
(* with its visibilitychange handler, and the debounced resize listener.   *)
(*                                                                         *)
(* Numbers.  Math.random() returns n/RandDen for n in 0..RandDen-1 (never  *)
(* 1).  Lengths are counted in units of minStarSpeed (0.05 px), so         *)
(* minStarSpeed = 1 and maxStarSpeed = 5.  A star's z and speed are stored *)
(* as numerators over RandDen, its x and y as numerators over 20*RandDen   *)
(* (GENERATION_AREA_MULTIPLIER is kept in tenths: 8 or 23).  With these    *)
(* denominators every value the code computes is an exact integer.         *)
(* star.size is written by resetStar and read only for the radius of the   *)
(* arc; it decides no branch and no other field and is not carried.        *)
(* parallaxFactor (50 px) and the 128.0 of the projection are 1000 and     *)
(* 2560 in the same unit.  mouseX and mouseY are kept doubled (in halves). *)
(* A globalAlpha value is a pair <<numerator, denominator>>; denominator 0 *)
(* stands for an infinite value.                                           *)
(*                                                                         *)
(* draw() steps and renders each star in one loop body.  What it renders   *)
(* of a star depends on that star's stepped fields and on values fixed for *)
(* the frame, so the model steps the store (draw) and derives the frame's  *)
(* canvas commands from the stepped store (DrawCommands).                  *)
(***************************************************************************)
EXTENDS Integers, Sequences, FiniteSets, TLC

\* ---------------------------------------------------------------- bounds
numStars == 1
NumColors == 2
RandDen == 2

\* ------------------------------------------------------- program constants
minStarSpeed == 1
maxStarSpeed == 5
DebounceDelay == 2
parallaxFactor == 1000
ProjectionConstant == 2560

\* Sizes the host may give the canvas' parent element: <<offsetWidth, offsetHeight>>.
Sizes == {<<0, 0>>, <<1, 2>>, <<3, 1>>}

\* Places of the pointer a mousemove event may report, in halves of the window:
\* <<2 * clientX / innerWidth, 2 * clientY / innerHeight>>. While a button is
\* held the host keeps reporting the pointer after it has left the window, so
\* a place may lie beyond the window's edge.
PointerPlaces == {<<0, 2>>, <<3, 1>>}

VARIABLES canvasPresent, isTouchDevice, hidden, offsetWidth, offsetHeight,
          starsByColor, animationFrameId, frameRequests,
          mouseX, mouseY, timeout, timers, elapsed, last

vars == <<canvasPresent, isTouchDevice, hidden, offsetWidth, offsetHeight,
          starsByColor, animationFrameId, frameRequests,
          mouseX, mouseY, timeout, timers, elapsed, last>>

hostVars == <<canvasPresent, isTouchDevice>>

\* ---------------------------------------------------------------- helpers
Rand == 0 .. (RandDen - 1)

starColors == 1 .. NumColors

GENERATION_AREA_MULTIPLIER == IF isTouchDevice THEN 8 ELSE 23

\* One resetStar call consumes three draws that matter here: x, y, speed.
ResetDraw == [rx : Rand, ry : Rand, rs : Rand]

\* One loop iteration of initializeStars: the color draw, resetStar's draws, the z draw.
InitDraw == [rc : Rand, rx : Rand, ry : Rand, rs : Rand, rz : Rand]

NoStars == [c \in starColors |-> << >>]

AllStars(store) == UNION {{store[c][i] : i \in 1 .. Len(store[c])} : c \in starColors}

RECURSIVE SumLen(_, _)
SumLen(store, c) == IF c = 0 THEN 0 ELSE Len(store[c]) + SumLen(store, c - 1)

TotalStars(store) == SumLen(store, NumColors)

\* A handle the host hands out: the smallest positive one not in `taken`. The
\* host never repeats a handle; the model reuses a number once neither the
\* host nor the program holds it, which no comparison in the code can notice.
FreshId(taken) == CHOOSE i \in 1 .. (Cardinality(taken) + 1) :
                      i \notin taken /\ \A j \in 1 .. (i - 1) : j \in taken

\* Mutant: the early return is missing.
Activated_unguarded == TRUE

\* if (!canvas) return;  -- nothing below line 5 runs without the canvas.
Activated == canvasPresent

\* ------------------------------------------------------------- resetStar
\* Mutant: width and height are swapped in the two coordinates.
resetStar_swapped(star, w, h, d) ==
    [star EXCEPT !.x = (2 * d.rx - RandDen) * h * GENERATION_AREA_MULTIPLIER,
                 !.y = (2 * d.ry - RandDen) * w * GENERATION_AREA_MULTIPLIER,
                 !.z = w * RandDen,
                 !.speed = RandDen * minStarSpeed + d.rs * (maxStarSpeed - minStarSpeed)]

\* Mutant: the draw for x is not centred (+ 0.5 in place of - 0.5).
resetStar_offCentre(star, w, h, d) ==
    [star EXCEPT !.x = (2 * d.rx + RandDen) * w * GENERATION_AREA_MULTIPLIER,
                 !.y = (2 * d.ry - RandDen) * h * GENERATION_AREA_MULTIPLIER,
                 !.z = w * RandDen,
                 !.speed = RandDen * minStarSpeed + d.rs * (maxStarSpeed - minStarSpeed)]

\* Mutant: the speed draw lacks its lower bound (+ minStarSpeed is missing).
resetStar_noMinSpeed(star, w, h, d) ==
    [star EXCEPT !.x = (2 * d.rx - RandDen) * w * GENERATION_AREA_MULTIPLIER,
                 !.y = (2 * d.ry - RandDen) * h * GENERATION_AREA_MULTIPLIER,
                 !.z = w * RandDen,
                 !.speed = d.rs * (maxStarSpeed - minStarSpeed)]

resetStar(star, w, h, d) ==
    [star EXCEPT !.x = (2 * d.rx - RandDen) * w * GENERATION_AREA_MULTIPLIER,
                 !.y = (2 * d.ry - RandDen) * h * GENERATION_AREA_MULTIPLIER,
                 !.z = w * RandDen,
                 !.speed = RandDen * minStarSpeed + d.rs * (maxStarSpeed - minStarSpeed)]

BlankStar(i) == [id |-> i, x |-> 0, y |-> 0, z |-> 0, speed |-> 0]

\* -------------------------------------------------------- initializeStars
\* Mutant: the arrays are not emptied.
ClearStore_keep(store) == store

\* starsByColor.forEach(arr => arr.length = 0)
ClearStore(store) == [c \in starColors |-> << >>]

\* starColors[Math.floor(Math.random() * starColors.length)]
PickColor(n) == ((n * NumColors) \div RandDen) + 1

RECURSIVE FillStars(_, _, _, _, _)
FillStars(store, i, w, h, draws) ==
    IF i > numStars THEN store
    ELSE LET d == draws[i]
             color == PickColor(d.rc)
             star == [resetStar(BlankStar(i), w, h, d) EXCEPT !.z = d.rz * w]
         IN  FillStars([store EXCEPT ![color] = Append(@, star)], i + 1, w, h, draws)

initializeStars(store, w, h, draws) == FillStars(ClearStore(store), 1, w, h, draws)

\* ------------------------------------------------------------------- draw
\* The stars whose depth is exhausted by this frame's decrement.
NeedsReset(star) == star.z - star.speed <= 0

ResetIds(store) == {s.id : s \in {t \in AllStars(store) : NeedsReset(t)}}

\* Lines 115-121: star.z -= star.speed; if (star.z <= 0) resetStar(star).
StepStar(star, w, h, draws) ==
    LET moved == [star EXCEPT !.z = @ - star.speed]
    IN  IF moved.z <= 0 THEN resetStar(moved, w, h, draws[star.id]) ELSE moved

\* Mutant: an exhausted star is dropped from its array instead of being reset.
StepBucket_dropExhausted(stars, w, h, draws) ==
    LET kept == SelectSeq(stars, LAMBDA s : ~NeedsReset(s))
    IN  [i \in 1 .. Len(kept) |-> StepStar(kept[i], w, h, draws)]

\* The inner loop over one color's array: every star is stepped where it stands.
StepBucket(stars, w, h, draws) ==
    [i \in 1 .. Len(stars) |-> StepStar(stars[i], w, h, draws)]

draw(store, w, h, draws) == [c \in starColors |-> StepBucket(store[c], w, h, draws)]

\* -------------------------------------------------------------- rendering
\* Twice vanishingPointX (or Y): size / 2 - mouse * parallaxFactor, where m is
\* the doubled mouse offset.
vanishingPoint(size, m) == size - m * parallaxFactor

\* One axis of the test of line 127 for a coordinate with numerator xn:
\* px = x * (128.0 / z) = xn * ProjectionConstant / (20 * zn), compared with
\* -vanishingPoint and size - vanishingPoint.  At z = 0 the quotient is
\* infinite and px is infinite or NaN: every comparison is false.
OnAxis(xn, zn, size, m) ==
    LET vp2 == vanishingPoint(size, m)
        p == xn * ProjectionConstant
    IN  IF zn > 0
        THEN p >= -(10 * vp2 * zn) /\ p <= 10 * (2 * size - vp2) * zn
        ELSE IF zn < 0
             THEN p <= -(10 * vp2 * zn) /\ p >= 10 * (2 * size - vp2) * zn
             ELSE FALSE

\* The condition of line 127.
Visible(star, w, h, mx, my) ==
    OnAxis(star.x, star.z, w, mx) /\ OnAxis(star.y, star.z, h, my)

\* Lines 128-132: Math.min(0.7 + (1 - z / visualWidth) * 0.3, 1.0).
finalAlpha(star, w) ==
    IF w = 0
    THEN IF star.z > 0 THEN <<-1, 0>> ELSE <<1, 1>>
    ELSE LET den == 10 * RandDen * w
             num == den - 3 * star.z
         IN  IF num > den THEN <<1, 1>> ELSE <<num, den>>

Cmd(op, arg) == [op |-> op, arg |-> arg]

\* Lines 127-136 for the stars i.. of one array: a visible star sets the alpha
\* and adds its circle to the path; any other star adds nothing.
RECURSIVE Shapes(_, _, _, _, _, _)
Shapes(stars, i, w, h, mx, my) ==
    IF i > Len(stars) THEN << >>
    ELSE LET star == stars[i]
             own == IF Visible(star, w, h, mx, my)
                    THEN <<Cmd("globalAlpha", finalAlpha(star, w)),
                           Cmd("moveTo", <<star.id>>),
                           Cmd("arc", <<star.id>>)>>
                    ELSE << >>
         IN  own \o Shapes(stars, i + 1, w, h, mx, my)

\* Mutant: style, path and fill are issued for each star instead of each color.
BucketCommands_perStar(c, stars, w, h, mx, my) ==
    IF stars = << >> THEN << >>
    ELSE <<Cmd("fillStyle", <<c>>), Cmd("beginPath", << >>)>>
         \o Shapes(stars, 1, w, h, mx, my)
         \o <<Cmd("fill", << >>)>>

\* Lines 108-139: one iteration of the loop over colors.
BucketCommands(c, stars, w, h, mx, my) ==
    <<Cmd("fillStyle", <<c>>), Cmd("beginPath", << >>)>>
    \o Shapes(stars, 1, w, h, mx, my)
    \o <<Cmd("fill", << >>)>>

\* The loop of line 105: the Map is iterated in insertion order, which is the
\* order of starColors.
RECURSIVE AllBuckets(_, _, _, _, _, _)
AllBuckets(store, c, w, h, mx, my) ==
    IF c > NumColors THEN << >>
    ELSE BucketCommands(c, store[c], w, h, mx, my)
         \o AllBuckets(store, c + 1, w, h, mx, my)

\* The canvas commands of one draw() whose stepped store is `store`.
DrawCommands(store, w, h, mx, my) ==
    <<Cmd("setTransform", << >>),
      Cmd("clearRect", <<w, h>>),
      Cmd("translate", <<vanishingPoint(w, mx), vanishingPoint(h, my)>>)>>
    \o AllBuckets(store, 1, w, h, mx, my)
    \o <<Cmd("globalAlpha", <<1, 1>>)>>

\* The canvas keeps an assigned globalAlpha only if it lies in [0, 1].
InUnitRange(a) == a[2] > 0 /\ 0 <= a[1] /\ a[1] <= a[2]

\* ctx.globalAlpha after the first n commands of a draw(). It is 1 when
\* draw() is entered: line 141 ended every earlier draw(), and the context
\* starts with 1.
RECURSIVE globalAlpha(_, _)
globalAlpha(cmds, n) ==
    IF n = 0 THEN <<1, 1>>
    ELSE IF cmds[n].op = "globalAlpha" /\ InUnitRange(cmds[n].arg)
         THEN cmds[n].arg
         ELSE globalAlpha(cmds, n - 1)

\* ---------------------------------------------------------------- animate
\* draw(); animationFrameId = requestAnimationFrame(animate);
\* Mutant: the frame is drawn but the next one is not requested.
animate_withoutRequest(pending) ==
    /\ animationFrameId' = animationFrameId
    /\ frameRequests' = pending
    /\ \E draws \in [ResetIds(starsByColor) -> ResetDraw] :
           starsByColor' = draw(starsByColor, offsetWidth, offsetHeight, draws)

\* `pending` are the requests the host holds when animate is entered.
animate(pending) ==
    /\ animationFrameId' = FreshId(pending \cup {animationFrameId})
    /\ frameRequests' = pending \cup {FreshId(pending \cup {animationFrameId})}
    /\ \E draws \in [ResetIds(starsByColor) -> ResetDraw] :
           starsByColor' = draw(starsByColor, offsetWidth, offsetHeight, draws)

\* cancelAnimationFrame(handle): a handle that is not pending is ignored.
cancelAnimationFrame(pending, handle) == pending \ {handle}

\* Mutant: the pending timer is not cleared.
clearTimeout_ignored(ts, handle) == ts

\* clearTimeout(handle) in the debounce wrapper.
clearTimeout(ts, handle) == [i \in (DOMAIN ts) \ {handle} |-> ts[i]]

NoTimers == [i \in {} |-> 0]

\* ------------------------------------------------------------------- Init
\* The state when the DOMContentLoaded handler has returned.
Init ==
    /\ canvasPresent \in BOOLEAN
    /\ isTouchDevice \in BOOLEAN
    /\ hidden \in BOOLEAN
    /\ \E s \in Sizes : offsetWidth = s[1] /\ offsetHeight = s[2]
    /\ timeout = 0
    /\ timers = NoTimers
    /\ elapsed = DebounceDelay
    /\ last = "load"
    /\ mouseX = 0
    /\ mouseY = 0
    /\ IF ~Activated
       THEN /\ starsByColor = NoStars
            /\ animationFrameId = 0
            /\ frameRequests = {}
       ELSE /\ \E ds \in [1 .. numStars -> InitDraw] :
                 LET fresh == initializeStars(NoStars, offsetWidth, offsetHeight, ds)
                 IN  \E draws \in [ResetIds(fresh) -> ResetDraw] :
                         starsByColor = draw(fresh, offsetWidth, offsetHeight, draws)
            /\ animationFrameId = 1
            /\ frameRequests = {1}

\* ---------------------------------------------------------------- actions
\* The host runs a pending frame request; it has rendering opportunities only
\* while the document is visible.
FrameCallback(id) ==
    /\ id \in frameRequests
    /\ ~hidden
    /\ last' = "frame"
    /\ animate(frameRequests \ {id})
    /\ UNCHANGED <<hostVars, hidden, offsetWidth, offsetHeight,
                   timeout, timers, elapsed, mouseX, mouseY>>

\* The document's visibility changes to h and visibilitychange is dispatched;
\* the host dispatches it once per change, so h differs from document.hidden
\* as it was.
VisibilityChange(h) ==
    /\ h # hidden
    /\ hidden' = h
    /\ last' = IF h THEN "hidden" ELSE "visible"
    /\ IF ~Activated
       THEN UNCHANGED <<starsByColor, animationFrameId, frameRequests>>
       ELSE IF h
            THEN /\ frameRequests' = cancelAnimationFrame(frameRequests, animationFrameId)
                 /\ UNCHANGED <<starsByColor, animationFrameId>>
            ELSE animate(frameRequests)
    /\ UNCHANGED <<hostVars, offsetWidth, offsetHeight,
                   timeout, timers, elapsed, mouseX, mouseY>>

\* A resize event reaches the debounced listener.
ResizeSignal ==
    /\ IF ~Activated
       THEN UNCHANGED <<timers, timeout>>
       ELSE LET rest == clearTimeout(timers, timeout)
                id == FreshId(DOMAIN rest)
            IN  /\ timers' = [i \in (DOMAIN rest) \cup {id} |->
                                 IF i = id THEN DebounceDelay ELSE rest[i]]
                /\ timeout' = id
    /\ elapsed' = 0
    /\ last' = IF elapsed < DebounceDelay THEN "restart" ELSE "resize"
    /\ UNCHANGED <<hostVars, hidden, offsetWidth, offsetHeight, mouseX, mouseY,
                   starsByColor, animationFrameId, frameRequests>>

\* One unit of time passes.
Tick ==
    /\ (elapsed < DebounceDelay) \/ (\E i \in DOMAIN timers : timers[i] > 0)
    /\ timers' = [i \in DOMAIN timers |-> IF timers[i] > 0 THEN timers[i] - 1 ELSE 0]
    /\ elapsed' = IF elapsed < DebounceDelay THEN elapsed + 1 ELSE elapsed
    /\ UNCHANGED <<hostVars, last, hidden, offsetWidth, offsetHeight,
                   starsByColor, animationFrameId, frameRequests, timeout, mouseX, mouseY>>

\* Mutant: resizeCanvas also requests a frame.
TimerFire_andRequest(id) ==
    /\ id \in DOMAIN timers
    /\ timers[id] = 0
    /\ timers' = [i \in (DOMAIN timers) \ {id} |-> timers[i]]
    /\ last' = "timer"
    /\ animationFrameId' = FreshId(frameRequests \cup {animationFrameId})
    /\ frameRequests' = frameRequests \cup {FreshId(frameRequests \cup {animationFrameId})}
    /\ \E ds \in [1 .. numStars -> InitDraw] :
           starsByColor' = initializeStars(starsByColor, offsetWidth, offsetHeight, ds)
    /\ UNCHANGED <<hostVars, hidden, offsetWidth, offsetHeight,
                   timeout, elapsed, mouseX, mouseY>>

\* A due timer runs resizeCanvas.
TimerFire(id) ==
    /\ id \in DOMAIN timers
    /\ timers[id] = 0
    /\ timers' = [i \in (DOMAIN timers) \ {id} |-> timers[i]]
    /\ last' = "timer"
    /\ \E ds \in [1 .. numStars -> InitDraw] :
           starsByColor' = initializeStars(starsByColor, offsetWidth, offsetHeight, ds)
    /\ UNCHANGED <<hostVars, hidden, offsetWidth, offsetHeight, animationFrameId,
                   frameRequests, timeout, elapsed, mouseX, mouseY>>

\* The host lays the parent element out at another size.
SurfaceChange(s) ==
    /\ s \in Sizes
    /\ <<offsetWidth, offsetHeight>> # s
    /\ offsetWidth' = s[1]
    /\ offsetHeight' = s[2]
    /\ UNCHANGED <<hostVars, last, hidden, starsByColor, animationFrameId,
                   frameRequests, timeout, timers, elapsed, mouseX, mouseY>>

\* A mousemove event; the listener exists only on a device without touch.
\* p is the pointer's place in the window, <<clientX / innerWidth,
\* clientY / innerHeight>>, in halves; mouseX and mouseY are kept in halves too.
MouseMove(p) ==
    /\ IF Activated /\ ~isTouchDevice
       THEN mouseX' = p[1] - 1 /\ mouseY' = p[2] - 1
       ELSE UNCHANGED <<mouseX, mouseY>>
    /\ UNCHANGED <<hostVars, last, hidden, offsetWidth, offsetHeight, starsByColor,
                   animationFrameId, frameRequests, timeout, timers, elapsed>>

Next ==
    \/ \E id \in frameRequests : FrameCallback(id)
    \/ \E h \in BOOLEAN : VisibilityChange(h)
    \/ ResizeSignal
    \/ Tick
    \/ \E id \in DOMAIN timers : TimerFire(id)
    \/ \E s \in Sizes : SurfaceChange(s)
    \/ \E p \in PointerPlaces : MouseMove(p)

Spec == Init /\ [][Next]_vars

\* The host keeps offering rendering opportunities to a visible document.
FairSpec == Spec /\ WF_vars(\E id \in frameRequests : FrameCallback(id))

\* ------------------------------------------------------- shared predicates
Stars == AllStars(starsByColor)

Ids(stars) == [i \in 1 .. Len(stars) |-> stars[i].id]

MaxWidth == CHOOSE w \in {s[1] : s \in Sizes} : \A s \in Sizes : s[1] <= w

\* new is old after one pass of lines 114-121 at width w: every star, where it
\* stood, either moved nearer by its speed or, its depth exhausted, went back
\* to the far plane.
FullPass(old, new, w) ==
    \A c \in starColors :
        /\ Len(new[c]) = Len(old[c])
        /\ \A i \in 1 .. Len(old[c]) :
               IF old[c][i].z - old[c][i].speed > 0
               THEN new[c][i] = [old[c][i] EXCEPT !.z = @ - old[c][i].speed]
               ELSE new[c][i].id = old[c][i].id /\ new[c][i].z = w * RandDen

FrameStep == \E id \in frameRequests : FrameCallback(id)

ReinitStep == \E id \in DOMAIN timers : TimerFire(id)

\* A step that runs draw(): a frame callback or the visibility-gained branch.
DrawStep == Activated /\ (FrameStep \/ VisibilityChange(FALSE))

\* The canvas commands of the draw() that has led to the current state.
FrameCommands == DrawCommands(starsByColor, offsetWidth, offsetHeight, mouseX, mouseY)

\* x within [-0.5, 0.5] * w * GENERATION_AREA_MULTIPLIER, y likewise with h.
InResampleRange(star, w, h) ==
    /\ -(RandDen * w * GENERATION_AREA_MULTIPLIER) <= star.x
    /\ star.x <= RandDen * w * GENERATION_AREA_MULTIPLIER
    /\ -(RandDen * h * GENERATION_AREA_MULTIPLIER) <= star.y
    /\ star.y <= RandDen * h * GENERATION_AREA_MULTIPLIER

\* ------------------------------------------------------------------ claims

\* C1: in every reachable state every particle of every bucket has z > 0.
C1_AllDepthsPositive == \A s \in Stars : s.z > 0

\* C2: at most one frame request is pending at any time.
C2_AtMostOneFrameRequest == Cardinality(frameRequests) <= 1

\* C3: once the handler of a visibility-lost signal has run, no frame request
\* is pending (so no frame callback can run before the next visibility-gained
\* signal).
C3_LostLeavesNoRequest == (last = "hidden") => frameRequests = {}

\* C4: a visibility-gained signal runs one full pass over the store and leaves
\* the request it has just made pending; so does every frame callback; and
\* if from some point on the document stays visible, frame callbacks run again
\* and again for ever.
C4_ResumeKeepsProducingFrames ==
    /\ [][(Activated /\ (VisibilityChange(FALSE) \/ FrameStep))
            => /\ FullPass(starsByColor, starsByColor', offsetWidth)
               /\ animationFrameId' \in frameRequests'
               /\ animationFrameId' # animationFrameId]_vars
    /\ <>[](Activated /\ ~hidden) => []<><<FrameStep>>_vars

\* C4 witness: a visibility-gained signal arrived while no request was pending.
C4_Witness == Activated /\ last = "visible" /\ ~hidden /\ Cardinality(frameRequests) = 1

\* C5: once the component is active the buckets together hold numStars
\* particles, after every initialization and after every frame.
C5_PopulationIsNumStars == Activated => TotalStars(starsByColor) = numStars

\* C5 witness: a debounced reinitialization (the second initialization of the
\* run at least) has just replaced the population.
C5_Witness == Activated /\ last = "timer" /\ TotalStars(starsByColor) = numStars

\* C6: at most one debounce timer is pending; a resize signal leaves exactly
\* the timer it starts, with the full delay to run; the debounced run happens
\* only when the delay has passed since the last signal, and leaves no timer
\* behind (one run per burst).
C6_DebounceRestartsTimer ==
    /\ [](Cardinality(DOMAIN timers) <= 1)
    /\ [][(Activated /\ ResizeSignal)
            => (DOMAIN timers' = {timeout'} /\ timers'[timeout'] = DebounceDelay)]_vars
    /\ [][ReinitStep => (elapsed = DebounceDelay /\ DOMAIN timers' = {})]_vars

\* C6 witness: a signal arrived while the timer of an earlier one was pending,
\* the delay has passed since, and the one timer left is due.
C6_Witness ==
    /\ last = "restart"
    /\ elapsed = DebounceDelay
    /\ DOMAIN timers = {timeout}
    /\ timers[timeout] = 0

\* C7: right after a pass of draw (the values the projector divided by in
\* that pass are the stored ones) every particle has z > 0.
C7_ProjectorDivisorPositive ==
    (last \in {"load", "frame", "visible"}) => \A s \in Stars : s.z > 0

\* C8: a step that is not a reinitialization leaves each bucket holding the
\* same particles in the same order.
C8_BucketMembershipFixed ==
    [][(\A c \in starColors : Ids(starsByColor'[c]) = Ids(starsByColor[c])) \/ ReinitStep]_vars

\* C8 witness: a frame has just sent a particle back to the far plane.
C8_Witness ==
    /\ last = "frame"
    /\ offsetWidth = MaxWidth
    /\ \E s \in Stars : s.z = MaxWidth * RandDen

\* C9: without the canvas nothing is ever built, scheduled or armed.
C9_AbsentCanvasNeverActivates ==
    (~canvasPresent) =>
        /\ starsByColor = NoStars
        /\ frameRequests = {}
        /\ animationFrameId = 0
        /\ timers = NoTimers
        /\ timeout = 0
        /\ mouseX = 0
        /\ mouseY = 0

\* C9 witness: without the canvas, a burst of resize signals arrived, the
\* debounce delay passed since, and the document is visible.
C9_Witness == ~canvasPresent /\ last = "restart" /\ elapsed = DebounceDelay /\ ~hidden

\* A population initializeStars can leave at surface size w x h: numStars
\* particles numbered 1..numStars, x and y within half the generation area
\* either way, z within [0, w].
FreshPopulation(store, w, h) ==
    /\ TotalStars(store) = numStars
    /\ {s.id : s \in AllStars(store)} = 1 .. numStars
    /\ \A s \in AllStars(store) :
           /\ -(RandDen * w * GENERATION_AREA_MULTIPLIER) <= s.x
           /\ s.x <= RandDen * w * GENERATION_AREA_MULTIPLIER
           /\ -(RandDen * h * GENERATION_AREA_MULTIPLIER) <= s.y
           /\ s.y <= RandDen * h * GENERATION_AREA_MULTIPLIER
           /\ 0 <= s.z
           /\ s.z <= w * RandDen

\* C10: the debounced reinitialization leaves a population generated for the
\* size the surface has then, whatever the store held before.
C10_ReinitUsesNewBounds ==
    [][ReinitStep => FreshPopulation(starsByColor', offsetWidth', offsetHeight')]_vars

\* C10 witness: a reinitialization at the widest surface has left a particle
\* off the centre line and nearer than the far plane.
C10_Witness ==
    /\ last = "timer"
    /\ offsetWidth = MaxWidth
    /\ \E s \in Stars : s.x # 0 /\ s.z > 0

\* C11: every particle resampled by a step has, right after the step, x and y
\* within half the generation area of the surface as it is at that step:
\* all particles at startup, all particles after a reinitialization, and
\* each particle a frame resets.
C11_ResampleWithinArea ==
    /\ Activated => \A s \in Stars : InResampleRange(s, offsetWidth, offsetHeight)
    /\ [][ReinitStep =>
            \A s \in AllStars(starsByColor') : InResampleRange(s, offsetWidth', offsetHeight')]_vars
    /\ [][DrawStep =>
            \A c \in starColors : \A i \in 1 .. Len(starsByColor[c]) :
                NeedsReset(starsByColor[c][i])
                    => InResampleRange(starsByColor'[c][i], offsetWidth, offsetHeight)]_vars

\* C11 witness: a frame at the widest surface has just reset a particle to a
\* place off the centre line.
C11_Witness ==
    /\ last = "frame"
    /\ offsetWidth = MaxWidth
    /\ \E s \in Stars : s.z = MaxWidth * RandDen /\ s.x # 0

\* Every bucket of the frame starts (its style is set) with global alpha 1.
AlphaRestoredPerBucket(cmds) ==
    \A i \in 1 .. Len(cmds) :
        cmds[i].op = "fillStyle"
            => globalAlpha(cmds, i - 1)[1] = globalAlpha(cmds, i - 1)[2]

\* C12: in the startup frame and in every later frame, the global alpha is 1
\* when a bucket's style is set; no bucket starts with the alpha of the
\* previous bucket's last particle.
C12_AlphaRestoredBetweenBuckets ==
    /\ Activated => AlphaRestoredPerBucket(FrameCommands)
    /\ [][DrawStep => AlphaRestoredPerBucket(FrameCommands')]_vars

\* The style, path and fill commands of a frame, in the order issued.
Skeleton(cmds) == SelectSeq(cmds, LAMBDA c : c.op \in {"fillStyle", "beginPath", "fill"})

\* One set-fill-style, one begin-path, one fill for each color from c on, in
\* palette order.
RECURSIVE PaletteSkeleton(_)
PaletteSkeleton(c) ==
    IF c > NumColors THEN << >>
    ELSE <<Cmd("fillStyle", <<c>>), Cmd("beginPath", << >>), Cmd("fill", << >>)>>
         \o PaletteSkeleton(c + 1)

\* The last style, path or fill command among the first n commands.
RECURSIVE LastOf(_, _, _)
LastOf(cmds, n, ops) ==
    IF n = 0 THEN Cmd("none", << >>)
    ELSE IF cmds[n].op \in ops THEN cmds[n] ELSE LastOf(cmds, n - 1, ops)

\* The frame that has led to the current state was batched by color.
BatchedFrame ==
    LET cmds == FrameCommands
        arcs == {i \in 1 .. Len(cmds) : cmds[i].op = "arc"}
        seen == {st \in Stars : Visible(st, offsetWidth, offsetHeight, mouseX, mouseY)}
    IN  /\ Skeleton(cmds) = PaletteSkeleton(1)
        /\ Cardinality(arcs) = Cardinality(seen)
        /\ \A i \in arcs :
               /\ LastOf(cmds, i, {"fillStyle", "beginPath", "fill"}).op = "beginPath"
               /\ LET c == LastOf(cmds, i, {"fillStyle"}).arg[1]
                  IN  \E k \in 1 .. Len(starsByColor[c]) :
                          /\ starsByColor[c][k].id = cmds[i].arg[1]
                          /\ starsByColor[c][k] \in seen

\* C13: a draw() that leads to a state (the startup frame, a frame callback,
\* the visibility-gained branch) issues, for each color in palette order, one
\* set-fill-style, one begin-path, the shapes of that bucket's visible
\* particles, one fill; so the number of each of the three commands is the
\* palette size, empty buckets included.
C13_OneBatchPerColor ==
    (Activated /\ last \in {"load", "frame", "visible"}) => BatchedFrame

\* C13 witness: a frame has just drawn a particle of the second color while
\* the first color's bucket is empty.
C13_Witness ==
    /\ last = "frame"
    /\ starsByColor[1] = << >>
    /\ \E st \in Stars : Visible(st, offsetWidth, offsetHeight, mouseX, mouseY)

\* C14: a step that runs draw() steps every particle of every bucket once,
\* visible or not: z becomes z - speed when that is positive and the visible
\* width otherwise, and no particle is left with z <= 0.
C14_FrameStepsEveryParticleOnce ==
    [][DrawStep =>
           /\ FullPass(starsByColor, starsByColor', offsetWidth)
           /\ \A st \in AllStars(starsByColor') : st.z > 0]_vars

\* The particle is no deeper than the width the frame read, and the alpha
\* assigned for it lies in [0.7, 1].
DepthWithinWidth(star, w) ==
    /\ star.z <= w * RandDen
    /\ finalAlpha(star, w)[2] > 0
    /\ 7 * finalAlpha(star, w)[2] <= 10 * finalAlpha(star, w)[1]
    /\ finalAlpha(star, w)[1] <= finalAlpha(star, w)[2]

\* C15: every particle a draw() step draws on a surface of positive width
\* has z at most the visible width that step read, and is drawn with an
\* alpha in [0.7, 1]; also when the surface has changed size since the
\* particles were generated.
C15_DrawnDepthWithinWidth ==
    [][(DrawStep /\ offsetWidth > 0) =>
           \A st \in AllStars(starsByColor') :
               Visible(st, offsetWidth', offsetHeight', mouseX', mouseY')
                   => DepthWithinWidth(st, offsetWidth')]_vars

MouseStep == \E p \in PointerPlaces : MouseMove(p)

\* A pointer event touches nothing but the camera offset.
PointerTouchesOnlyCamera ==
    MouseStep => UNCHANGED <<starsByColor, animationFrameId, frameRequests, timers,
                             timeout, hidden, offsetWidth, offsetHeight>>

\* A draw() step translates once, before any bucket, to the vanishing point
\* computed from the offset as it stands when the step begins.
FrameUsesLatestOffset ==
    DrawStep =>
        LET cmds == FrameCommands'
            at == {i \in 1 .. Len(cmds) : cmds[i].op = "translate"}
        IN  /\ Cardinality(at) = 1
            /\ \A i \in at :
                   /\ cmds[i].arg = <<vanishingPoint(offsetWidth, mouseX),
                                      vanishingPoint(offsetHeight, mouseY)>>
                   /\ \A j \in 1 .. i : cmds[j].op \notin {"fillStyle", "moveTo", "arc"}

\* C16: mouseX and mouseY stay within [-0.5, 0.5] (-1 .. 1 in halves); a
\* pointer event changes nothing else; the next frame's one vanishing point
\* comes from the latest offset.
C16_PointerMovesOnlyCamera ==
    /\ [](mouseX \in -1 .. 1 /\ mouseY \in -1 .. 1)
    /\ [][PointerTouchesOnlyCamera]_vars
    /\ [][FrameUsesLatestOffset]_vars

\* C17: a debounced reinitialization leaves the animation driver as it was:
\* the pending frame requests, the held handle and the visibility are
\* unchanged, so it schedules nothing while stopped and neither cancels nor
\* duplicates a request while running.
C17_ReinitLeavesDriverAlone ==
    [][ReinitStep => UNCHANGED <<frameRequests, animationFrameId, hidden>>]_vars

\* C17 witness: the reinitialization has just run while the document is
\* hidden and no frame request is pending.
C17_Witness == Activated /\ last = "timer" /\ hidden /\ frameRequests = {}

\* Particle i is recycled: a frame callback resets it, or a reinitialization
\* replaces it.
Recycle(i) == (FrameStep /\ i \in ResetIds(starsByColor)) \/ ReinitStep

====
